---- MODULE Spec2Model ----
(***************************************************************************)
(* Generic data-access layer of the user-management backend:               *)
(*   backend/domain/shared/base_repository.py   (BaseRepository)           *)
(*   backend/domain/user/repository.py          (UserRepository, loader)   *)
(*   backend/domain/user/service.py             (UserService)              *)
(*   backend/domain/user/auth_service.py        (AuthService)              *)
(*   backend/domain/shared/query_helpers.py     (SearchPatternBuilder)     *)
(*                                                                         *)
(* Spec        : one AsyncSession working on the "user" table.             *)
(* SpecList    : the listing calls.                                        *)
(* SpecUser    : the user repository and service.                          *)
(* SpecRead    : the filtered reads of BaseRepository.                      *)
(* SpecBulk    : bulk_update.                                              *)
(* SpecSearch  : build_search_condition on every query and column value.   *)
(* SpecBuilders: the three functions of SearchPatternBuilder together.     *)
(* SpecFilter  : QueryFilterBuilder on Select statements.                  *)
(* SpecText    : the text filter of QueryFilterBuilder.                    *)
(* SpecSelector: LocaleFieldSelector on model classes.                     *)
(* SpecAudit   : the writes of the specialized repositories.               *)
(* SpecLoader  : load_user_with_relations, statement by statement.         *)
(* SpecSignUp  : email_sign_up requests on independent sessions.           *)
(* SpecService : the calls of UserService.                                 *)
(* SpecAuth    : UserService and AuthService around a user's deletion.     *)
(***************************************************************************)
EXTENDS Integers, Sequences, FiniteSets, TLC

VARIABLES
    table,      \* committed rows of the "user" table: id -> row
    session,    \* the rows as the session's open transaction sees them
                \* (committed rows + objects added/changed but not committed)
    nextId,     \* source of generated primary keys (generate_user_id)
    now,        \* the clock read by datetime.now()
    ret,        \* outcome of the last repository/service call
    failedAt,   \* history: clock values of the bulk_create calls that raised
                \* without committing their batch
    query,      \* SearchPatternBuilder input: raw query string
    value,      \* SearchPatternBuilder input: the column value of one row
    use_trgm,   \* SearchPatternBuilder input: use_trigram_similarity
    cond,       \* the condition built by the last build_search_condition
    order_expr, \* the ORDER BY expression built by the last build_order_by
    short,      \* the answer of the last is_short_query
    items,      \* rows of a table with user_id and is_visible: id -> row
    owners,     \* rows of the "user" table that the items refer to: id -> row
    stmt,       \* the Select statement under construction
    applied,    \* the QueryFilterBuilder helper applied last, with its argument
    result,     \* outcome of the last execution of stmt
    model,      \* LocaleFieldSelector input: the fields the model class declares
    selected,   \* outcome of the last LocaleFieldSelector call, with its inputs
    txn,        \* the session's transaction when the last call ended: "none"
                \* (committed or rolled back) or "failed" (a statement failed
                \* in it and nothing has rolled it back)
    audits,     \* committed rows of the "user_access_audit" table, oldest first
    loader,     \* the load_user_with_relations call in progress on the session:
                \* its position and the session.execute calls it has started
                \* and not yet got the result of (in flight)
    signup      \* the email_sign_up calls in progress, one per independent
                \* session: session -> position and request

vars ==
    <<table, session, nextId, now, ret, failedAt, query, value, use_trgm, cond,
      order_expr, short, items, owners, stmt, applied, result, model, selected,
      txn, audits, loader, signup>>
repoVars == <<table, session, nextId, now, ret, failedAt>>
searchVars == <<query, value, use_trgm, cond, order_expr, short>>
filterVars == <<items, owners, stmt, applied, result>>
selectorVars == <<model, selected>>
auditVars == <<txn, audits>>
procVars == <<loader, signup>>

----------------------------------------------------------------------------
(* Bounds *)
MaxId == 2          \* rows ever created in one behaviour
MaxClock == 3       \* last clock value at which a write call may start
MaxBatch == 2       \* rows in one bulk_create batch
MaxLimit == 1       \* largest page size requested
MaxQueryLen == 3    \* characters in a search query
MaxValueLen == 2    \* characters in a searched column value
MaxWhere == 4       \* criteria in the WHERE clause of one statement
MaxAudits == 2      \* access events logged in one behaviour

(* Values *)
NULL == "NULL"      \* SQL NULL / Python None for text columns
NoTime == 0         \* SQL NULL / Python None for timestamp columns
Phones == {"p1"}
Names == {"a", "b"}
Emails == {"e1"}

ModelFields ==
    {"id", "phone", "name", "email", "created_at", "updated_at", "deleted_at"}

\* the names hasattr(model, name) is true for: the columns and the other
\* attributes of the class, such as the table metadata
ModelAttrs == ModelFields \cup {"metadata"}

EmptyTable == [i \in {} |-> NULL]

FieldValues(f) ==
    CASE f = "phone" -> Phones
      [] f = "name" -> Names
      [] f = "email" -> Emails
      [] OTHER -> {"x"}

\* keyword arguments: a mapping from some of the names in F to values
Kwargs(F) ==
    {kw \in UNION {[S -> Phones \cup Names \cup Emails \cup {"x"}] : S \in SUBSET F} :
        \A f \in DOMAIN kw : kw[f] \in FieldValues(f)}

Arg(kw, f, default) == IF f \in DOMAIN kw THEN kw[f] ELSE default

----------------------------------------------------------------------------
(* The User model and its table *)

\* variant: created_at declared without its default_factory
User_NoCreatedAt(kw, id, t) ==
    [id |-> id,
     phone |-> Arg(kw, "phone", NULL),
     name |-> Arg(kw, "name", NULL),
     email |-> Arg(kw, "email", NULL),
     created_at |-> NoTime,
     updated_at |-> t,
     deleted_at |-> NoTime]

\* User(**kwargs): defaults for everything not supplied
User(kw, id, t) ==
    [id |-> id,
     phone |-> Arg(kw, "phone", NULL),
     name |-> Arg(kw, "name", NULL),
     email |-> Arg(kw, "email", NULL),
     created_at |-> t,
     updated_at |-> t,
     deleted_at |-> NoTime]

\* phone is UNIQUE (NULLs never collide); id is the primary key
Unique(tb) ==
    \A i, j \in DOMAIN tb :
        (i # j /\ tb[i].phone = tb[j].phone) => tb[i].phone = NULL

Put(tb, row) ==
    [i \in DOMAIN tb \cup {row.id} |-> IF i = row.id THEN row ELSE tb[i]]

Remove(tb, id) == [i \in DOMAIN tb \ {id} |-> tb[i]]

----------------------------------------------------------------------------
(* The session.  db is [table |-> committed rows, session |-> the rows     *)
(* of the open transaction].  A flush sends the pending INSERT/UPDATE      *)
(* statements; when one of them fails the library rolls the transaction   *)
(* back and discards the pending objects.                                  *)

Clean(db) == [db EXCEPT !.session = db.table]

\* session.rollback()
Rollback(db) == Clean(db)

\* autoflush before a SELECT: ok, or a failed flush that discards the
\* pending state
Autoflush(db) ==
    IF Unique(db.session) THEN [ok |-> TRUE, db |-> db]
    ELSE [ok |-> FALSE, db |-> Clean(db)]

\* session.commit() with the working rows v; fail is an injected
\* database-layer failure of the statement
Commit(db, v, fail) ==
    IF fail THEN [status |-> "SQLAlchemyError", db |-> Clean(db)]
    ELSE IF ~Unique(v) THEN [status |-> "IntegrityError", db |-> Clean(db)]
    ELSE [status |-> "ok", db |-> [table |-> v, session |-> v]]

----------------------------------------------------------------------------
(* Outcome of a call: the session afterwards, how the call ended           *)
(* ("ok" = returned, anything else = the exception that reached the        *)
(* caller), what it returned, and whether a statement of the call failed   *)
(* in the database layer (dbfail).                                         *)

Out(db, status, rows, flag) ==
    [db |-> db, status |-> status, rows |-> rows, flag |-> flag, n |-> 0,
     dbfail |-> FALSE]

Failed(db, status, rows) ==
    [db |-> db, status |-> status, rows |-> rows, flag |-> FALSE, n |-> 0,
     dbfail |-> TRUE]

Absent == <<>>      \* None, as an empty sequence of rows

(* BaseRepository *)

\* variant: the failure of the SELECT is re-raised
get_async_Raises(db, id, fail) ==
    LET af == Autoflush(db) IN
    IF ~af.ok \/ fail
    THEN Failed(af.db, "SQLAlchemyError", Absent)
    ELSE IF id \in DOMAIN af.db.session
         THEN Out(af.db, "ok", <<af.db.session[id]>>, TRUE)
         ELSE Out(af.db, "ok", Absent, FALSE)

\* fail: the SELECT fails in the database layer
get_async(db, id, fail) ==
    LET af == Autoflush(db) IN
    IF ~af.ok \/ fail
    THEN Failed(af.db, "ok", Absent)      \* logged, None returned
    ELSE IF id \in DOMAIN af.db.session
         THEN Out(af.db, "ok", <<af.db.session[id]>>, TRUE)
         ELSE Out(af.db, "ok", Absent, FALSE)

\* variant: the integrity error is rolled back and logged, not re-raised
create_async_NoRaise(db, kw, id, t, fail) ==
    LET entity == User(kw, id, t)
        c == Commit(db, Put(db.session, entity), fail = "commit")
    IN  IF c.status = "IntegrityError"
        THEN Failed(Rollback(c.db), "ok", Absent)
        ELSE IF c.status # "ok"
        THEN Failed(Rollback(c.db), c.status, Absent)
        ELSE IF fail = "refresh"
        THEN Failed(Rollback(c.db), "SQLAlchemyError", Absent)
        ELSE Out(c.db, "ok", <<c.db.table[id]>>, TRUE)

\* fail: "none", "commit" or "refresh"
create_async(db, kw, id, t, fail) ==
    LET entity == User(kw, id, t)
        c == Commit(db, Put(db.session, entity), fail = "commit")
    IN  IF c.status # "ok"
        THEN Failed(Rollback(c.db), c.status, Absent)
        ELSE IF fail = "refresh"
        THEN Failed(Rollback(c.db), "SQLAlchemyError", Absent)
        ELSE Out(c.db, "ok", <<c.db.table[id]>>, TRUE)

\* variant: the updated_at stamp is left out
ApplyFields_NoStamp(entity, kw, t) ==
    [f \in DOMAIN entity |-> IF f \in DOMAIN kw THEN kw[f] ELSE entity[f]]

\* setattr for every key the entity has, then the updated_at stamp
ApplyFields(entity, kw, t) ==
    [f \in DOMAIN entity |->
        IF f = "updated_at" THEN t
        ELSE IF f \in DOMAIN kw THEN kw[f]
        ELSE entity[f]]

\* variant: a missing entity is built from the fields instead of returning
update_async_Upsert(db, id, kw, t, fail) ==
    LET g == get_async(db, id, fail = "lookup")
        base == IF g.rows = Absent THEN User(<<>>, id, t) ELSE g.rows[1]
        entity == ApplyFields(base, kw, t)
        c == Commit(g.db, Put(g.db.session, entity), fail = "commit")
    IN  IF c.status # "ok"
        THEN Failed(Rollback(c.db), c.status, Absent)
        ELSE IF fail = "refresh"
        THEN Failed(Rollback(c.db), "SQLAlchemyError", Absent)
        ELSE Out(c.db, "ok", <<c.db.table[id]>>, TRUE)

\* fail: "none", "lookup", "commit" or "refresh"
update_async(db, id, kw, t, fail) ==
    LET g == get_async(db, id, fail = "lookup") IN
    IF g.rows = Absent
    THEN g                                \* return None
    ELSE LET entity == ApplyFields(g.rows[1], kw, t)
             c == Commit(g.db, Put(g.db.session, entity), fail = "commit")
         IN  IF c.status # "ok"
             THEN Failed(Rollback(c.db), c.status, Absent)
             ELSE IF fail = "refresh"
             THEN Failed(Rollback(c.db), "SQLAlchemyError", Absent)
             ELSE Out(c.db, "ok", <<c.db.table[id]>>, TRUE)

\* variant: the not-found branch returns True
delete_async_TrueWhenMissing(db, id, fail) ==
    LET g == get_async(db, id, fail = "lookup") IN
    IF g.rows = Absent
    THEN [g EXCEPT !.flag = TRUE]
    ELSE LET c == Commit(g.db, Remove(g.db.session, id), fail = "commit")
         IN  IF c.status # "ok"
             THEN Failed(Rollback(c.db), c.status, Absent)
             ELSE Out(c.db, "ok", Absent, TRUE)

\* fail: "none", "lookup" or "commit"
delete_async(db, id, fail) ==
    LET g == get_async(db, id, fail = "lookup") IN
    IF g.rows = Absent
    THEN g                                \* return False
    ELSE LET c == Commit(g.db, Remove(g.db.session, id), fail = "commit")
         IN  IF c.status # "ok"
             THEN Failed(Rollback(c.db), c.status, Absent)
             ELSE Out(c.db, "ok", Absent, TRUE)

\* an element of the batch that User(**entity_data) cannot take
NonMapping == [bad |-> "x"]
IsMapping(d) == "bad" \notin DOMAIN d

\* index of the first element whose construction raises, 0 when none does
FirstBad(batch) ==
    IF \E i \in 1..Len(batch) : ~IsMapping(batch[i])
    THEN CHOOSE i \in 1..Len(batch) :
            /\ ~IsMapping(batch[i])
            /\ \A j \in 1..(i - 1) : IsMapping(batch[j])
    ELSE 0

\* the entities built from the first k elements, in order
Built(batch, k, id0, t) == [i \in 1..k |-> User(batch[i], id0 + i - 1, t)]

RECURSIVE AddAll(_, _)
AddAll(tb, rows) ==
    IF rows = <<>> THEN tb ELSE AddAll(Put(tb, Head(rows)), Tail(rows))

\* fail: "none", "commit" or "refresh"
bulk_create_async(db, batch, id0, t, fail) ==
    LET bad == FirstBad(batch) IN
    IF bad > 0
    THEN \* not an SQLAlchemyError: no handler, the objects added so far stay
         Out([db EXCEPT !.session =
                    AddAll(db.session, Built(batch, bad - 1, id0, t))],
             "TypeError", Absent, FALSE)
    ELSE LET created == Built(batch, Len(batch), id0, t)
             c == Commit(db, AddAll(db.session, created), fail = "commit")
         IN  IF c.status # "ok"
             THEN Failed(Rollback(c.db), c.status, Absent)
             ELSE IF fail = "refresh" /\ created # <<>>
             THEN Failed(Rollback(c.db), "SQLAlchemyError", Absent)
             ELSE Out(c.db, "ok", created, TRUE)

\* the timestamp is put into every entry that has none
Stamp(update_data, t) ==
    IF "updated_at" \in DOMAIN update_data THEN update_data
    ELSE update_data @@ [updated_at |-> t]

\* UPDATE ... SET <the mapped columns of the entry> WHERE id = <its id>
ApplyMapping(tb, update_data) ==
    IF update_data.id \notin DOMAIN tb THEN tb
    ELSE [tb EXCEPT ![update_data.id] =
            [f \in DOMAIN @ |->
                IF f \in DOMAIN update_data THEN update_data[f] ELSE @[f]]]

RECURSIVE ApplyAll(_, _)
ApplyAll(tb, updates) ==
    IF updates = <<>> THEN tb
    ELSE ApplyAll(ApplyMapping(tb, Head(updates)), Tail(updates))

\* fail: "none", "execute" or "commit".  stale: what the unit of work does
\* when an UPDATE of the batch matches no row and the batch has several
\* entries: "raise" (the driver reports the row count of the batch, the
\* mismatch raises StaleDataError) or "ignore" (it does not); for a single
\* entry the count is always checked.
bulk_update_async(db, updates, t, fail, stale) ==
    IF updates = <<>> THEN Out(db, "ok", <<>>, FALSE)       \* return 0
    ELSE
    LET stamped == [k \in 1..Len(updates) |-> Stamp(updates[k], t)]
        missing == \E k \in 1..Len(updates) :
                        updates[k].id \notin DOMAIN db.session
    IN  IF fail = "execute"
        THEN Failed(Rollback(db), "SQLAlchemyError", <<>>)
        ELSE IF missing /\ (Len(updates) = 1 \/ stale = "raise")
        THEN Failed(Rollback(db), "StaleDataError", <<>>)
        ELSE LET c == Commit(db, ApplyAll(db.session, stamped), fail = "commit")
             IN  IF c.status # "ok"
                 THEN Failed(Rollback(c.db), c.status, <<>>)
                 ELSE [Out(c.db, "ok", <<>>, TRUE) EXCEPT !.n = Len(updates)]

----------------------------------------------------------------------------
(* Listing and counting *)

Perms(S) ==
    {p \in [1..Cardinality(S) -> S] :
        \A i, j \in 1..Cardinality(S) : i # j => p[i] # p[j]}

\* position of a column value in ascending order; NULL sorts last
SortKey(row, f) ==
    CASE f \in {"id", "created_at", "updated_at"} -> row[f]
      [] f = "deleted_at" -> IF row[f] = NoTime THEN 99 ELSE row[f]
      [] row[f] = NULL -> 99
      [] row[f] \in {"a", "e1", "p1"} -> 1
      [] OTHER -> 2

\* order_by is a sequence of tokens: <<>>, <<"name">>, <<"-", "name">>.
\* The ORDER BY it produces: field = "" when the ordering is omitted.
OrderOf(order_by) ==
    IF order_by = <<>> THEN [field |-> "", desc |-> FALSE]
    ELSE IF Head(order_by) = "-"
    THEN IF Len(order_by) = 2 /\ order_by[2] \in ModelAttrs
         THEN [field |-> order_by[2], desc |-> TRUE]
         ELSE [field |-> "", desc |-> FALSE]
    ELSE IF Len(order_by) = 1 /\ order_by[1] \in ModelAttrs
         THEN [field |-> order_by[1], desc |-> FALSE]
         ELSE [field |-> "", desc |-> FALSE]

\* the row orders the database may return for a statement with that
\* ORDER BY: any order that respects it
RowOrders(tb, ord) ==
    {p \in Perms(DOMAIN tb) :
        ord.field \in ModelFields =>
            \A i, j \in 1..Len(p) : i < j =>
                IF ord.desc
                THEN SortKey(tb[p[i]], ord.field) >= SortKey(tb[p[j]], ord.field)
                ELSE SortKey(tb[p[i]], ord.field) <= SortKey(tb[p[j]], ord.field)}

Min(a, b) == IF a < b THEN a ELSE b

\* OFFSET skip (when skip is truthy) then LIMIT limit (when limit is truthy)
Page(rows, skip, limit) ==
    LET from == IF skip # 0 THEN skip + 1 ELSE 1
        to == IF limit # 0 THEN Min(Len(rows), from + limit - 1) ELSE Len(rows)
    IN  SubSeq(rows, from, to)

\* order: the row order picked by the database, one of RowOrders
list_async(db, skip, limit, order_by, order, fail) ==
    LET af == Autoflush(db) IN
    IF OrderOf(order_by).field \in ModelAttrs \ ModelFields
    THEN \* order_by(<not a column>) raises ArgumentError, an
         \* SQLAlchemyError, before anything is executed: logged, [] returned
         Out(db, "ok", <<>>, FALSE)
    ELSE IF ~af.ok \/ fail
    THEN Failed(af.db, "ok", <<>>)        \* logged, [] returned
    ELSE Out(af.db, "ok",
             Page([i \in 1..Len(order) |-> af.db.session[order[i]]], skip, limit),
             TRUE)

\* a filter value: a scalar, or a Python list of scalars
Scalar(x) == [list |-> FALSE, v |-> x]
ListOf(xs) == [list |-> TRUE, v |-> xs]

\* column == value with a list as the value: the statement cannot be
\* executed (a list is no value of the column's type)
BadCompare(filters) ==
    \E f \in DOMAIN filters : f \in ModelFields /\ filters[f].list

\* WHERE field = value for every filter that names a field of the model
Matches(row, filters) ==
    \A f \in DOMAIN filters :
        f \in ModelFields => (~filters[f].list /\ row[f] = filters[f].v)

\* the same with field IN (values) for the filters that hold a list
MatchesIn(row, filters) ==
    \A f \in DOMAIN filters :
        f \in ModelFields =>
            IF filters[f].list
            THEN \E k \in 1..Len(filters[f].v) : row[f] = filters[f].v[k]
            ELSE row[f] = filters[f].v

\* variant: the failure is re-raised
count_async_Raises(db, filters, fail) ==
    LET af == Autoflush(db) IN
    IF ~af.ok \/ fail \/ BadCompare(filters)
    THEN Failed(af.db, "SQLAlchemyError", <<>>)
    ELSE [Out(af.db, "ok", <<>>, TRUE) EXCEPT
            !.n = Cardinality({i \in DOMAIN af.db.session :
                                    Matches(af.db.session[i], filters)})]

count_async(db, filters, fail) ==
    LET af == Autoflush(db) IN
    IF ~af.ok \/ fail \/ BadCompare(filters)
    THEN Failed(af.db, "ok", <<>>)        \* logged, 0 returned
    ELSE [Out(af.db, "ok", <<>>, TRUE) EXCEPT
            !.n = Cardinality({i \in DOMAIN af.db.session :
                                    Matches(af.db.session[i], filters)})]

exists_async(db, kw, fail) ==
    LET af == Autoflush(db) IN
    IF ~af.ok \/ fail \/ BadCompare(kw)
    THEN Failed(af.db, "ok", <<>>)        \* logged, False returned
    ELSE Out(af.db, "ok", <<>>,
             \E i \in DOMAIN af.db.session : Matches(af.db.session[i], kw))

\* scalar_one_or_none() raises MultipleResultsFound, an SQLAlchemyError,
\* when more than one row matches: logged, None returned
find_by_async(db, kw, fail) ==
    LET af == Autoflush(db)
        ids == {i \in DOMAIN af.db.session : Matches(af.db.session[i], kw)}
    IN  IF ~af.ok \/ fail \/ BadCompare(kw)
        THEN Failed(af.db, "ok", Absent)
        ELSE IF Cardinality(ids) = 1
        THEN Out(af.db, "ok", <<af.db.session[CHOOSE i \in ids : TRUE]>>, TRUE)
        ELSE Out(af.db, "ok", Absent, FALSE)

\* the rows of tb that the filters of filter_by select
Selected(tb, kw) == [i \in {j \in DOMAIN tb : MatchesIn(tb[j], kw)} |-> tb[i]]

\* order_by is NULL (None) or a name; order: the row order picked by the
\* database, one of RowOrders of the selected rows
filter_by_async(db, skip, limit, order_by, order_by_desc, kw, order, fail) ==
    LET af == Autoflush(db) IN
    IF order_by # NULL /\ order_by \notin ModelAttrs
    THEN \* getattr raises AttributeError: no handler for it
         Out(db, "AttributeError", <<>>, FALSE)
    ELSE IF order_by # NULL /\ order_by \notin ModelFields
    THEN \* not a column: .desc() raises AttributeError, order_by() raises
         \* ArgumentError, which is logged and [] returned
         IF order_by_desc THEN Out(db, "AttributeError", <<>>, FALSE)
         ELSE Out(db, "ok", <<>>, FALSE)
    ELSE IF ~af.ok \/ fail
    THEN Failed(af.db, "ok", <<>>)        \* logged, [] returned
    ELSE Out(af.db, "ok",
             Page([i \in 1..Len(order) |-> af.db.session[order[i]]], skip, limit),
             TRUE)

----------------------------------------------------------------------------
(* UserRepository, UserDataLoader, UserService.list_users *)

\* phone.replace("-", "")
RemoveHyphens(phone) ==
    CASE phone = "p-1" -> "p1"
      [] phone = "p-2" -> "p2"
      [] OTHER -> phone

\* result.scalar_one_or_none() over the ids selected by a statement
ScalarOneOrNone(db, ids) ==
    IF ids = {} THEN Out(db, "ok", Absent, FALSE)
    ELSE IF Cardinality(ids) = 1
    THEN Out(db, "ok", <<db.session[CHOOSE i \in ids : TRUE]>>, TRUE)
    ELSE Out(db, "MultipleResultsFound", Absent, FALSE)

\* a SELECT of the specialized repositories: no handler around it
SelectOne(db, Where(_), fail) ==
    LET af == Autoflush(db) IN
    IF ~af.ok THEN Failed(af.db, "IntegrityError", Absent)
    ELSE IF fail THEN Failed(af.db, "SQLAlchemyError", Absent)
    ELSE ScalarOneOrNone(af.db,
            {i \in DOMAIN af.db.session : Where(af.db.session[i])})

find_by_phone(db, phone, fail) ==
    LET Where(row) == row.phone = RemoveHyphens(phone) /\ row.deleted_at = NoTime
    IN  SelectOne(db, Where, fail)

find_by_email(db, email, fail) ==
    LET Where(row) == row.email = email /\ row.deleted_at = NoTime
    IN  SelectOne(db, Where, fail)

\* fail: "none", "lookup" or "commit"
soft_delete(db, user_id, t, fail) ==
    LET g == get_async(db, user_id, fail = "lookup") IN
    IF g.rows = Absent \/ g.rows[1].deleted_at # NoTime
    THEN [g EXCEPT !.rows = Absent, !.flag = FALSE]     \* return False
    ELSE LET user == [g.rows[1] EXCEPT !.deleted_at = t, !.updated_at = t]
             c == Commit(g.db, Put(g.db.session, user), fail = "commit")
         IN  IF c.status # "ok"
             THEN Failed(c.db, c.status, Absent)        \* no handler
             ELSE Out(c.db, "ok", Absent, TRUE)

\* UserAccessAudit(...): the optional columns default to None, created_at
\* to the time of construction
UserAccessAudit(args, id, t) ==
    [id |-> id,
     created_at |-> t,
     accessor_id |-> args.accessor_id,
     accessor_type |-> args.accessor_type,
     target_user_id |-> args.target_user_id,
     resource_type |-> args.resource_type,
     resource_id |-> Arg(args, "resource_id", NULL),
     action |-> args.action,
     ip_address |-> Arg(args, "ip_address", NULL),
     user_agent |-> Arg(args, "user_agent", NULL)]

\* fail: "none", "commit" or "refresh".  aud: the committed audit rows.
\* add, commit, refresh, with no handler around them: the commit writes
\* whatever the session holds, and an error goes to the caller as it is
log_access(db, aud, args, id, t, fail) ==
    LET audit == UserAccessAudit(args, id, t)
        c == Commit(db, db.session, fail = "commit")
    IN  IF c.status # "ok"
        THEN [o |-> Failed(c.db, c.status, Absent), audits |-> aud]
        ELSE IF fail = "refresh"
        THEN [o |-> Failed(c.db, "SQLAlchemyError", Absent),
              audits |-> Append(aud, audit)]
        ELSE [o |-> Out(c.db, "ok", <<audit>>, TRUE),
              audits |-> Append(aud, audit)]

\* race: what the four statements issued together on the one session do,
\* "ok" (all four complete) or "error" (the driver rejects the overlap)
load_user_with_relations(db, user_id, fail, race) ==
    LET Where(row) == row.id = user_id /\ row.deleted_at = NoTime
        u == SelectOne(db, Where, fail)
    IN  IF u.status # "ok" \/ u.rows = Absent THEN u
        ELSE IF race = "error"
        THEN Failed(u.db, "SQLAlchemyError", Absent)
        ELSE u

\* fail: "none", "list" or "count"
list_users(db, skip, limit, order, fail) ==
    LET users == list_async(db, skip, limit, <<"-", "created_at">>, order,
                            fail = "list")
        total == count_async(users.db, [deleted_at |-> Scalar(NoTime)],
                             fail = "count")
    IN  [Out(total.db, "ok", users.rows, TRUE) EXCEPT
            !.n = total.n, !.dbfail = users.dbfail \/ total.dbfail]

(* UserService and AuthService.  status "NotFoundError", "ValueError" and  *)
(* "HTTP_401_UNAUTHORIZED" / "HTTP_409_CONFLICT" are the exceptions the    *)
(* services raise themselves.                                              *)

\* fail: FALSE or TRUE (the user lookup of the loader fails)
get_user(db, user_id, fail, race) ==
    LET loaded == load_user_with_relations(db, user_id, fail, race) IN
    IF loaded.status = "ok" /\ loaded.rows = Absent
    THEN [loaded EXCEPT !.status = "NotFoundError", !.flag = FALSE]
    ELSE loaded

\* fail: "none", "lookup" (find_by_phone), "commit", "refresh"
\* (create_async) or "load" (get_user)
create_user(db, phone, name, id, t, fail, race) ==
    LET normalized == RemoveHyphens(phone)
        existing == find_by_phone(db, normalized, fail = "lookup")
    IN  IF existing.status # "ok" THEN existing
        ELSE IF existing.rows # Absent
        THEN Out(existing.db, "ValueError", Absent, FALSE)
        ELSE LET user == create_async(existing.db,
                                      [phone |-> normalized, name |-> name],
                                      id, t,
                                      IF fail \in {"commit", "refresh"} THEN fail
                                      ELSE "none")
             IN  IF user.status # "ok" THEN user
                 ELSE get_user(user.db, id, fail = "load", race)

\* variant: the deleted_at test of the first lookup is left out
update_user_NoDeletedTest(db, user_id, name, t, fail, race) ==
    LET user == get_async(db, user_id, fail = "lookup") IN
    IF user.rows = Absent
    THEN [user EXCEPT !.status = "NotFoundError", !.rows = Absent, !.flag = FALSE]
    ELSE LET u == IF name # NULL
                  THEN update_async(user.db, user_id, [name |-> name], t,
                            CASE fail = "update_lookup" -> "lookup"
                              [] fail \in {"commit", "refresh"} -> fail
                              [] OTHER -> "none")
                  ELSE user
         IN  IF u.status # "ok" THEN u
             ELSE [get_user(u.db, user_id, fail = "load", race) EXCEPT
                        !.dbfail = @ \/ u.dbfail]

\* name: request.name, NULL when the request leaves it out (the row has no
\* status column).  fail: "none", "lookup" (the first get_async),
\* "update_lookup", "commit", "refresh" (update_async) or "load" (get_user)
update_user(db, user_id, name, t, fail, race) ==
    LET user == get_async(db, user_id, fail = "lookup") IN
    IF user.rows = Absent \/ user.rows[1].deleted_at # NoTime
    THEN [user EXCEPT !.status = "NotFoundError", !.rows = Absent, !.flag = FALSE]
    ELSE LET u == IF name # NULL
                  THEN update_async(user.db, user_id, [name |-> name], t,
                            CASE fail = "update_lookup" -> "lookup"
                              [] fail \in {"commit", "refresh"} -> fail
                              [] OTHER -> "none")
                  ELSE user
         IN  IF u.status # "ok" THEN u
             ELSE [get_user(u.db, user_id, fail = "load", race) EXCEPT
                        !.dbfail = @ \/ u.dbfail]

delete_user(db, user_id, t, fail) == soft_delete(db, user_id, t, fail)

\* password_ok: the user has a stored hash and verify_password accepts the
\* request's password against it.  ok: tokens for the user in rows
email_login(db, email, password_ok, fail) ==
    LET user == find_by_email(db, email, fail) IN
    IF user.status # "ok" THEN user
    ELSE IF user.rows = Absent \/ ~password_ok
    THEN Out(user.db, "HTTP_401_UNAUTHORIZED", Absent, FALSE)
    ELSE user

\* a token: what jwt.decode makes of it
Tokens == [type : {"access", "refresh"}, sub : 1..MaxId, valid : BOOLEAN]

\* _verify_token: the user id, or None (0) for a token that is expired,
\* invalid or of the other type
verify_token(token, token_type) ==
    IF ~token.valid \/ token.type # token_type THEN 0 ELSE token.sub

\* ok: new tokens for the user in rows
refresh_access_token(db, refresh_token, fail) ==
    LET user_id == verify_token(refresh_token, "refresh") IN
    IF user_id = 0 THEN Out(db, "HTTP_401_UNAUTHORIZED", Absent, FALSE)
    ELSE LET user == get_async(db, user_id, fail) IN
         IF user.rows = Absent \/ user.rows[1].deleted_at # NoTime
         THEN [user EXCEPT !.status = "HTTP_401_UNAUTHORIZED", !.rows = Absent,
                           !.flag = FALSE]
         ELSE user

----------------------------------------------------------------------------
(* SearchPatternBuilder.  Strings are sequences of characters; a condition *)
(* is a syntax tree that the database evaluates on the column value of a   *)
(* row in three-valued logic ("T", "F", "U" for NULL).                     *)

SHORT_QUERY_THRESHOLD == 2
SIMILARITY_TENTHS == 1      \* SIMILARITY_THRESHOLD = 0.1

Whitespace == {" ", "\t"}
Chars == {" ", "\t", "a", "A", "%", "_"}
SqlNull == <<"NULL">>       \* the column value NULL

Strings(n) == UNION {[1..k -> Chars] : k \in 0..n}

RECURSIVE LStrip(_)
LStrip(str) ==
    IF str # <<>> /\ Head(str) \in Whitespace THEN LStrip(Tail(str)) ELSE str

RECURSIVE RStrip(_)
RStrip(str) ==
    IF str # <<>> /\ str[Len(str)] \in Whitespace
    THEN RStrip(SubSeq(str, 1, Len(str) - 1))
    ELSE str

\* str.strip()
strip(str) == RStrip(LStrip(str))

Lower(c) == IF c = "A" THEN "a" ELSE c

\* text ILIKE pattern: % matches any run of characters, _ any one
RECURSIVE LikeMatch(_, _)
LikeMatch(pattern, text) ==
    IF pattern = <<>> THEN text = <<>>
    ELSE IF Head(pattern) = "%"
    THEN LikeMatch(Tail(pattern), text)
            \/ (text # <<>> /\ LikeMatch(pattern, Tail(text)))
    ELSE IF Head(pattern) = "_"
    THEN text # <<>> /\ LikeMatch(Tail(pattern), Tail(text))
    ELSE /\ text # <<>>
         /\ Lower(Head(pattern)) = Lower(Head(text))
         /\ LikeMatch(Tail(pattern), Tail(text))

\* pg_trgm: the trigrams of the lower-cased alphanumeric words, each word
\* padded with two blanks in front and one behind
IsWordChar(c) == c \in {"a", "A"}

Words(str) ==
    {SubSeq(str, i, j) : i \in 1..Len(str), j \in 1..Len(str)} \cap
    {w \in Strings(Len(str)) :
        /\ w # <<>>
        /\ \A k \in 1..Len(w) : IsWordChar(w[k])}

MaximalWords(str) ==
    {w \in Words(str) :
        \E i \in 1..Len(str) :
            /\ i + Len(w) - 1 <= Len(str)
            /\ SubSeq(str, i, i + Len(w) - 1) = w
            /\ (i = 1 \/ ~IsWordChar(str[i - 1]))
            /\ (i + Len(w) > Len(str) \/ ~IsWordChar(str[i + Len(w)]))}

Trigrams(str) ==
    UNION {LET padded == <<" ", " ">> \o [k \in 1..Len(w) |-> Lower(w[k])] \o <<" ">>
           IN  {SubSeq(padded, i, i + 2) : i \in 1..(Len(padded) - 2)}
           : w \in MaximalWords(str)}

\* similarity(text, q) > SIMILARITY_THRESHOLD
SimilarityAbove(text, q) ==
    LET a == Trigrams(text)
        b == Trigrams(q)
    IN  10 * Cardinality(a \cap b) > SIMILARITY_TENTHS * Cardinality(a \cup b)

And3(x, y) ==
    IF x = "F" \/ y = "F" THEN "F" ELSE IF x = "T" /\ y = "T" THEN "T" ELSE "U"

Or3(x, y) ==
    IF x = "T" \/ y = "T" THEN "T" ELSE IF x = "F" /\ y = "F" THEN "F" ELSE "U"

Bool3(b) == IF b THEN "T" ELSE "F"

RECURSIVE Eval(_, _)
Eval(c, v) ==
    CASE c.op = "is_null" -> Bool3(v = SqlNull)
      [] c.op = "is_not_null" -> Bool3(v # SqlNull)
      [] c.op = "and" -> And3(Eval(c.l, v), Eval(c.r, v))
      [] c.op = "or" -> Or3(Eval(c.l, v), Eval(c.r, v))
      [] c.op = "ilike" ->
            IF v = SqlNull THEN "U" ELSE Bool3(LikeMatch(c.pattern, v))
      [] c.op = "similarity_gt" ->
            IF v = SqlNull THEN "U" ELSE Bool3(SimilarityAbove(v, c.q))
      [] OTHER -> "U"

ILike(q) == [op |-> "ilike", pattern |-> <<"%">> \o q \o <<"%">>]

\* variant: the query is not stripped
build_search_condition_NoStrip(q, use_trigram_similarity) ==
    IF q = <<>>
    THEN [op |-> "and", l |-> [op |-> "is_null"], r |-> [op |-> "is_not_null"]]
    ELSE IF Len(q) <= SHORT_QUERY_THRESHOLD
    THEN ILike(q)
    ELSE IF use_trigram_similarity
    THEN [op |-> "or", l |-> ILike(q), r |-> [op |-> "similarity_gt", q |-> q]]
    ELSE ILike(q)

build_search_condition(q, use_trigram_similarity) ==
    LET stripped == strip(q) IN
    IF stripped = <<>>
    THEN [op |-> "and", l |-> [op |-> "is_null"], r |-> [op |-> "is_not_null"]]
    ELSE IF Len(stripped) <= SHORT_QUERY_THRESHOLD
    THEN ILike(stripped)
    ELSE IF use_trigram_similarity
    THEN [op |-> "or", l |-> ILike(stripped),
          r |-> [op |-> "similarity_gt", q |-> stripped]]
    ELSE ILike(stripped)

\* the expression handed to ORDER BY: the column itself (ascending) or
\* similarity(column, query) descending
build_order_by(q) ==
    LET stripped == strip(q) IN
    IF Len(stripped) <= SHORT_QUERY_THRESHOLD
    THEN [op |-> "column"]
    ELSE [op |-> "similarity_desc", q |-> stripped]

\* variant: the length of the raw query is tested
is_short_query_NoStrip(q) == Len(q) <= SHORT_QUERY_THRESHOLD

is_short_query(q) == Len(strip(q)) <= SHORT_QUERY_THRESHOLD

----------------------------------------------------------------------------
(* QueryFilterBuilder.  A Select statement is the sequence of tables it    *)
(* joins to its model and the sequence of its WHERE criteria.  The model   *)
(* is any table with the columns id, user_id and is_visible; user_id is    *)
(* not a foreign key, so the row it names may be missing.                  *)

ItemIds == {"i1", "i2"}
OwnerIds == {"u1", "u2"}

\* model_with_visibility(...): is_visible is "T", "F" or "U" (NULL)
Item(id, user_id, is_visible) ==
    [id |-> id, user_id |-> user_id, is_visible |-> is_visible]

\* the columns of User that the filter reads; is_admin is NOT NULL
Owner(id, is_admin) == [id |-> id, is_admin |-> is_admin]

ItemRows == {Item(i, u, v) : i \in ItemIds, u \in OwnerIds, v \in {"T", "F", "U"}}
OwnerRows == {Owner(u, a) : u \in OwnerIds, a \in {"T", "F"}}

\* the tables: every row is stored under its primary key
ItemTables ==
    UNION {{tb \in [S -> ItemRows] : \A i \in S : tb[i].id = i} :
                S \in SUBSET ItemIds}
OwnerTables ==
    UNION {{tb \in [S -> OwnerRows] : \A u \in S : tb[u].id = u} :
                S \in SUBSET OwnerIds}

\* a model with a text column: material is NULL or a string
TextItem(id, material) == [id |-> id, material |-> material]

TextItemRows == {TextItem(i, m) : i \in ItemIds, m \in Strings(1) \cup {SqlNull}}

TextItemTables ==
    UNION {{tb \in [S -> TextItemRows] : \A i \in S : tb[i].id = i} :
                S \in SUBSET ItemIds}

\* select(model)
select == [joins |-> <<>>, where |-> <<>>]

\* variant: only the owner's role is tested
add_visibility_filters_RoleOnly(statement) ==
    [joins |-> Append(statement.joins, "user"),
     where |-> Append(statement.where, [op |-> "owner_is_not_admin"])]

\* .join(User, model.user_id == User.id)
\* .where(User.is_admin.is_(False), model.is_visible)
add_visibility_filters(statement) ==
    [joins |-> Append(statement.joins, "user"),
     where |-> statement.where \o
                <<[op |-> "owner_is_not_admin"], [op |-> "is_visible"]>>]

\* Python truth value of an Optional[str]
Truthy(x) == x # NULL /\ x # ""

\* variant: the criterion is added whatever the identifier is
add_exclude_id_filter_Always(statement, exclude_id) ==
    [statement EXCEPT !.where = Append(@, [op |-> "id_ne", id |-> exclude_id])]

add_exclude_id_filter(statement, exclude_id) ==
    IF Truthy(exclude_id)
    THEN [statement EXCEPT !.where = Append(@, [op |-> "id_ne", id |-> exclude_id])]
    ELSE statement

\* .where(column.isnot(None), column != "")
add_not_null_and_not_empty_filter(statement) ==
    [statement EXCEPT !.where = @ \o <<[op |-> "is_not_null"], [op |-> "ne_empty"]>>]

\* a criterion on one row of the FROM clause: item i joined with owner u
\* (u = NULL when "user" is not joined); a comparison with NULL is not true
Holds(c, i, u, its, own) ==
    CASE c.op = "owner_is_not_admin" -> u # NULL /\ own[u].is_admin = "F"
      [] c.op = "is_visible" -> its[i].is_visible = "T"
      [] c.op = "id_ne" -> c.id # NULL /\ its[i].id # c.id
      [] c.op = "is_not_null" -> its[i].material # SqlNull
      [] c.op = "ne_empty" -> its[i].material # SqlNull /\ its[i].material # <<>>
      [] OTHER -> FALSE

\* session.execute(statement): the database rejects a FROM clause that
\* names the same table twice without an alias; otherwise the rows of the
\* inner joins that pass every criterion
execute(statement, its, own) ==
    IF Len(statement.joins) > 1
    THEN [status |-> "ProgrammingError", rows |-> {}]
    ELSE [status |-> "ok",
          rows |->
            {r \in [item : DOMAIN its, owner : DOMAIN own \cup {NULL}] :
                /\ IF statement.joins = <<>> THEN r.owner = NULL
                   ELSE r.owner = its[r.item].user_id
                /\ \A k \in 1..Len(statement.where) :
                        Holds(statement.where[k], r.item, r.owner, its, own)}]

----------------------------------------------------------------------------
(* LocaleFieldSelector.  A name is a sequence of tokens, "_" being one of  *)
(* them; a model class is the set of the field names it declares.          *)

\* LocaleCode = Literal["ko", "en"]: a type hint, nothing tests it at run time
LocaleCode == {<<"ko">>, <<"en">>}

\* the attributes every model class has besides its fields
ClassAttrs == {<<"metadata">>}

\* hasattr(model, name)
hasattr(m, name) == name \in m \cup ClassAttrs

\* dir(model)
dir(m) == m \cup ClassAttrs

NoName == <<>>

\* f"{field_prefix}_{locale}"
get_field_name(field_prefix, locale) == field_prefix \o <<"_">> \o locale

\* variant: a missing field is replaced by the field of the first locale
select_field_Fallback(m, field_prefix, locale) ==
    LET field_name == get_field_name(field_prefix, locale)
        other == get_field_name(field_prefix, <<"ko">>)
    IN  IF hasattr(m, field_name)
        THEN [status |-> "ok", field |-> field_name, missing |-> NoName,
              listed |-> {}]
        ELSE IF hasattr(m, other)
        THEN [status |-> "ok", field |-> other, missing |-> NoName, listed |-> {}]
        ELSE [status |-> "ValueError", field |-> NoName, missing |-> field_name,
              listed |-> dir(m)]

\* the column, or ValueError with the name and dir(model) in its message
select_field(m, field_prefix, locale) ==
    LET field_name == get_field_name(field_prefix, locale) IN
    IF ~hasattr(m, field_name)
    THEN [status |-> "ValueError", field |-> NoName, missing |-> field_name,
          listed |-> dir(m)]
    ELSE [status |-> "ok", field |-> field_name, missing |-> NoName, listed |-> {}]

\* the dict comprehension: the prefixes in order, the first failure ends it
select_multiple_fields(m, field_prefixes, locale) ==
    LET one(k) == select_field(m, field_prefixes[k], locale)
        bad == {k \in 1..Len(field_prefixes) : one(k).status # "ok"}
    IN  IF bad # {}
        THEN LET first == CHOOSE k \in bad : \A j \in bad : k <= j IN
             [status |-> one(first).status, fields |-> <<>>,
              missing |-> one(first).missing, listed |-> one(first).listed]
        ELSE [status |-> "ok",
              fields |-> [p \in {field_prefixes[k] : k \in 1..Len(field_prefixes)} |->
                            select_field(m, p, locale).field],
              missing |-> NoName, listed |-> {}]

----------------------------------------------------------------------------
(* The state machine of one session *)

Ids == 1..MaxId
Db == [table |-> table, session |-> session]
View == Autoflush(Db).db.session    \* what the next SELECT reads

CreateKwargs == Kwargs({"phone", "name", "email"})
UpdateKwargs == Kwargs({"phone", "name", "bogus"})
BulkItems == Kwargs({"phone"}) \cup {NonMapping}
Batches == UNION {[1..k -> BulkItems] : k \in 0..MaxBatch}
OrderBys ==
    {<<>>, <<"name">>, <<"-", "created_at">>, <<"bogus">>, <<"-", "bogus">>,
     <<"metadata">>}
PhoneInputs == {"p1", "p-1", "p2"}
UpdateEntries ==
    {[id |-> i] : i \in Ids} \cup
    {[id |-> i, name |-> n] : i \in Ids, n \in Names} \cup
    {[id |-> i, phone |-> p] : i \in Ids, p \in Phones}
UpdateBatches == UNION {[1..k -> UpdateEntries] : k \in 0..MaxBatch}
Filters ==
    {<<>>, [name |-> Scalar("a")], [bogus |-> Scalar("x")],
     [name |-> ListOf(<<"a", "b">>)], [name |-> ListOf(<<>>)]}
FilterOrders ==
    {[order_by |-> NULL, order_by_desc |-> FALSE],
     [order_by |-> "name", order_by_desc |-> FALSE],
     [order_by |-> "name", order_by_desc |-> TRUE],
     [order_by |-> "bogus", order_by_desc |-> FALSE]}

\* no LocaleFieldSelector call yet
NoSelection ==
    [op |-> "none", prefixes |-> <<>>, locale |-> NoName, status |-> "ok",
     field |-> NoName, fields |-> <<>>, missing |-> NoName, listed |-> {}]

SelectorIdle ==
    /\ model = {}
    /\ selected = NoSelection

\* no transaction left behind, no access logged
AuditIdle ==
    /\ txn = "none"
    /\ audits = <<>>

Sessions == {1, 2}      \* the independent sessions that sign users up

\* no loader call and no sign-up in progress
NoLoad ==
    [pc |-> "idle", user_id |-> 0, fail |-> FALSE, issued |-> <<>>,
     inflight |-> {}, rejected |-> FALSE]

NoSignUp == [pc |-> "idle", email |-> NULL, username |-> NULL]

ProcIdle ==
    /\ loader = NoLoad
    /\ signup = [p \in Sessions |-> NoSignUp]

Ret(op, o) ==
    [op |-> op, status |-> o.status, rows |-> o.rows, flag |-> o.flag,
     n |-> o.n, dbfail |-> o.dbfail, id |-> 0, kw |-> <<>>, skip |-> 0, limit |-> 0,
     order_by |-> <<>>, fail |-> "none", batch |-> <<>>, filters |-> <<>>]

Init ==
    /\ table = EmptyTable
    /\ session = EmptyTable
    /\ nextId = 1
    /\ now = 1
    /\ ret = Ret("none", Out(Db, "ok", <<>>, FALSE))
    /\ failedAt = {}
    /\ query = <<>>
    /\ value = <<>>
    /\ use_trgm = TRUE
    /\ cond = [op |-> "none"]
    /\ order_expr = [op |-> "none"]
    /\ short = [op |-> "none"]
    /\ items = EmptyTable
    /\ owners = EmptyTable
    /\ stmt = select
    /\ applied = [op |-> "none", exclude_id |-> NULL]
    /\ result = [status |-> "none", rows |-> {}]
    /\ SelectorIdle
    /\ AuditIdle
    /\ ProcIdle

\* The transaction a call leaves behind.  A failed flush is rolled back by
\* the library and the write handlers of BaseRepository roll back
\* themselves; a SELECT that fails (the lookups and the reads, the refresh
\* of log_access, the statements of the loader) is followed by no rollback.
TxnAfter(r) ==
    IF \/ /\ r.dbfail
          /\ r.fail \in {"lookup", "execute", "list", "count", "load"}
          /\ r.op # "bulk_update"
          /\ (r.fail = "count" \/ Autoflush(Db).ok)
       \/ /\ r.op = "load_user_with_relations"
          /\ r.dbfail
          /\ Autoflush(Db).ok
       \/ /\ r.op = "log_access"
          /\ r.fail = "refresh"
          /\ r.status # "ok"
    THEN "failed"
    ELSE "none"

\* the session after the call, the clock read, the outcome recorded.
\* Generated ids are arbitrary fresh values: the ids of objects that were
\* discarded are handed out again.
Done(o, r) ==
    /\ table' = o.db.table
    /\ session' = o.db.session
    /\ nextId' = nextId + Cardinality({i \in DOMAIN o.db.session : i >= nextId})
    /\ now' = now + 1
    /\ ret' = r
    /\ failedAt' =
            IF /\ r.op = "bulk_create"
               /\ r.status # "ok"
               /\ \A i \in DOMAIN o.db.table : o.db.table[i].created_at # now
            THEN failedAt \cup {now}
            ELSE failedAt
    /\ UNCHANGED searchVars
    /\ UNCHANGED filterVars
    /\ UNCHANGED selectorVars
    /\ txn' = TxnAfter(r)
    /\ UNCHANGED audits
    /\ UNCHANGED procVars

Read(o, r) ==
    /\ table' = o.db.table
    /\ session' = o.db.session
    /\ ret' = r
    /\ UNCHANGED <<nextId, now, failedAt>>
    /\ UNCHANGED searchVars
    /\ UNCHANGED filterVars
    /\ UNCHANGED selectorVars
    /\ txn' = TxnAfter(r)
    /\ UNCHANGED audits
    /\ UNCHANGED procVars

Get ==
    \E id \in Ids, fail \in BOOLEAN :
        LET o == get_async(Db, id, fail) IN
        Read(o, [Ret("get", o) EXCEPT !.id = id,
                    !.fail = IF fail THEN "lookup" ELSE "none"])

Create ==
    /\ nextId <= MaxId
    /\ now <= MaxClock
    /\ \E kw \in CreateKwargs, fail \in {"none", "commit", "refresh"} :
        LET o == create_async(Db, kw, nextId, now, fail) IN
        Done(o, [Ret("create", o) EXCEPT !.id = nextId, !.kw = kw, !.fail = fail])

Update ==
    /\ now <= MaxClock
    /\ \E id \in Ids, kw \in UpdateKwargs,
          fail \in {"none", "lookup", "commit", "refresh"} :
        LET o == update_async(Db, id, kw, now, fail) IN
        Done(o, [Ret("update", o) EXCEPT !.id = id, !.kw = kw, !.fail = fail])

Delete ==
    /\ now <= MaxClock
    /\ \E id \in Ids, fail \in {"none", "lookup", "commit"} :
        LET o == delete_async(Db, id, fail) IN
        Done(o, [Ret("delete", o) EXCEPT !.id = id, !.fail = fail])

BulkCreate ==
    /\ now <= MaxClock
    /\ \E batch \in Batches, fail \in {"none", "commit", "refresh"} :
        /\ nextId + Len(batch) - 1 <= MaxId
        /\ LET o == bulk_create_async(Db, batch, nextId, now, fail) IN
           Done(o, [Ret("bulk_create", o) EXCEPT !.id = nextId, !.batch = batch,
                        !.fail = fail])

List ==
    \E skip \in 0..MaxLimit, limit \in 0..MaxLimit, order_by \in OrderBys,
       fail \in BOOLEAN :
        \E order \in RowOrders(View, OrderOf(order_by)) :
            LET o == list_async(Db, skip, limit, order_by, order, fail) IN
            Read(o, [Ret("list", o) EXCEPT !.skip = skip, !.limit = limit,
                        !.order_by = order_by,
                        !.fail = IF fail THEN "execute" ELSE "none"])

Count ==
    \E filters \in Filters, fail \in BOOLEAN :
        LET o == count_async(Db, filters, fail) IN
        Read(o, [Ret("count", o) EXCEPT !.filters = filters,
                    !.fail = IF fail THEN "execute" ELSE "none"])

Exists ==
    \E kw \in Filters, fail \in BOOLEAN :
        LET o == exists_async(Db, kw, fail) IN
        Read(o, [Ret("exists", o) EXCEPT !.filters = kw,
                    !.fail = IF fail THEN "execute" ELSE "none"])

FindBy ==
    \E kw \in Filters, fail \in BOOLEAN :
        LET o == find_by_async(Db, kw, fail) IN
        Read(o, [Ret("find_by", o) EXCEPT !.filters = kw,
                    !.fail = IF fail THEN "execute" ELSE "none"])

FilterBy ==
    \E skip \in 0..MaxLimit, limit \in 0..MaxLimit, by \in FilterOrders,
       kw \in Filters, fail \in BOOLEAN :
        \E order \in RowOrders(Selected(View, kw),
                                [field |-> IF by.order_by = "name" THEN "name" ELSE "",
                                 desc |-> by.order_by_desc]) :
            LET order_by == by.order_by
                order_by_desc == by.order_by_desc
                o == filter_by_async(Db, skip, limit, order_by, order_by_desc,
                                     kw, order, fail)
            IN  Read(o, [Ret("filter_by", o) EXCEPT !.skip = skip,
                            !.limit = limit, !.filters = kw,
                            !.order_by = IF order_by = NULL THEN <<>>
                                         ELSE IF order_by_desc
                                         THEN <<"-", order_by>>
                                         ELSE <<order_by>>,
                            !.fail = IF fail THEN "execute" ELSE "none"])

BulkUpdate ==
    /\ now <= MaxClock
    /\ \E updates \in UpdateBatches, fail \in {"none", "execute", "commit"},
          stale \in {"raise", "ignore"} :
        LET o == bulk_update_async(Db, updates, now, fail, stale) IN
        Done(o, [Ret("bulk_update", o) EXCEPT !.batch = updates, !.fail = fail])

FindByPhone ==
    \E phone \in PhoneInputs, fail \in BOOLEAN :
        LET o == find_by_phone(Db, phone, fail) IN
        Read(o, [Ret("find_by_phone", o) EXCEPT !.kw = [phone |-> phone],
                    !.fail = IF fail THEN "execute" ELSE "none"])

FindByEmail ==
    \E email \in Emails, fail \in BOOLEAN :
        LET o == find_by_email(Db, email, fail) IN
        Read(o, [Ret("find_by_email", o) EXCEPT !.kw = [email |-> email],
                    !.fail = IF fail THEN "execute" ELSE "none"])

SoftDelete ==
    /\ now <= MaxClock
    /\ \E id \in Ids, fail \in {"none", "lookup", "commit"} :
        LET o == soft_delete(Db, id, now, fail) IN
        Done(o, [Ret("soft_delete", o) EXCEPT !.id = id, !.fail = fail])

LoadUser ==
    \E id \in Ids, fail \in BOOLEAN, race \in {"ok", "error"} :
        LET o == load_user_with_relations(Db, id, fail, race) IN
        Read(o, [Ret("load_user_with_relations", o) EXCEPT !.id = id,
                    !.fail = IF fail THEN "execute" ELSE "none"])

ListUsers ==
    \E skip \in 0..MaxLimit, limit \in 1..MaxLimit,
       fail \in {"none", "list", "count"} :
        \E order \in RowOrders(View, OrderOf(<<"-", "created_at">>)) :
            LET o == list_users(Db, skip, limit, order, fail) IN
            Read(o, [Ret("list_users", o) EXCEPT !.skip = skip, !.limit = limit,
                        !.fail = fail])

\* the write calls of the repository and the point lookup
Next ==
    \/ Get
    \/ Create
    \/ Update
    \/ Delete
    \/ BulkCreate
    \/ SoftDelete

Spec == Init /\ [][Next]_vars

\* the listing calls over a table filled by create
NextList ==
    \/ Create
    \/ List

SpecList == Init /\ [][NextList]_vars

\* the user repository and the user service over one session
NextUser ==
    \/ Create
    \/ SoftDelete
    \/ FindByPhone
    \/ FindByEmail
    \/ LoadUser
    \/ ListUsers
    \/ Count

SpecUser == Init /\ [][NextUser]_vars

\* the reads of the repository over every table that k creates, one per
\* clock value, leave behind
ReadTables ==
    UNION {{tb \in [1..k -> {User(kw, i, i) : kw \in Kwargs({"name"}),
                                               i \in 1..k}] :
                /\ \A i \in 1..k : tb[i].id = i
                /\ Unique(tb)} : k \in 0..MaxId}

InitRead ==
    /\ table \in ReadTables
    /\ session = table
    /\ nextId = Cardinality(DOMAIN table) + 1
    /\ now = Cardinality(DOMAIN table) + 1
    /\ ret = Ret("none", Out([table |-> table, session |-> table], "ok", <<>>, FALSE))
    /\ failedAt = {}
    /\ query = <<>>
    /\ value = <<>>
    /\ use_trgm = TRUE
    /\ cond = [op |-> "none"]
    /\ order_expr = [op |-> "none"]
    /\ short = [op |-> "none"]
    /\ items = EmptyTable
    /\ owners = EmptyTable
    /\ stmt = select
    /\ applied = [op |-> "none", exclude_id |-> NULL]
    /\ result = [status |-> "none", rows |-> {}]
    /\ SelectorIdle
    /\ AuditIdle
    /\ ProcIdle

NextRead ==
    \/ Get
    \/ List
    \/ Count
    \/ Exists
    \/ FindBy
    \/ FilterBy

SpecRead == InitRead /\ [][NextRead]_vars

\* bulk_update over a table filled by create
NextBulk ==
    \/ Create
    \/ BulkUpdate

SpecBulk == Init /\ [][NextBulk]_vars

\* SearchPatternBuilder on every query, column value and flag
InitSearch ==
    /\ table = EmptyTable
    /\ session = EmptyTable
    /\ nextId = 1
    /\ now = 1
    /\ ret = Ret("none", Out(Db, "ok", <<>>, FALSE))
    /\ failedAt = {}
    /\ query \in Strings(MaxQueryLen)
    /\ value \in Strings(MaxValueLen) \cup {SqlNull}
    /\ use_trgm \in BOOLEAN
    /\ cond = [op |-> "none"]
    /\ order_expr = [op |-> "none"]
    /\ short = [op |-> "none"]
    /\ items = EmptyTable
    /\ owners = EmptyTable
    /\ stmt = select
    /\ applied = [op |-> "none", exclude_id |-> NULL]
    /\ result = [status |-> "none", rows |-> {}]
    /\ SelectorIdle
    /\ AuditIdle
    /\ ProcIdle

BuildSearchCondition ==
    /\ cond.op = "none"
    /\ cond' = build_search_condition(query, use_trgm)
    /\ UNCHANGED <<query, value, use_trgm, order_expr, short>>
    /\ UNCHANGED repoVars
    /\ UNCHANGED filterVars
    /\ UNCHANGED selectorVars
    /\ UNCHANGED auditVars
    /\ UNCHANGED procVars

NextSearch == BuildSearchCondition

SpecSearch == InitSearch /\ [][NextSearch]_vars

\* the three functions of SearchPatternBuilder on every query and flag
InitBuilders ==
    /\ InitSearch
    /\ value = <<>>

BuildOrderBy ==
    /\ order_expr.op = "none"
    /\ order_expr' = build_order_by(query)
    /\ UNCHANGED <<query, value, use_trgm, cond, short>>
    /\ UNCHANGED repoVars
    /\ UNCHANGED filterVars
    /\ UNCHANGED selectorVars
    /\ UNCHANGED auditVars
    /\ UNCHANGED procVars

IsShortQuery ==
    /\ short.op = "none"
    /\ short' = [op |-> "is_short_query", result |-> is_short_query(query)]
    /\ UNCHANGED <<query, value, use_trgm, cond, order_expr>>
    /\ UNCHANGED repoVars
    /\ UNCHANGED filterVars
    /\ UNCHANGED selectorVars
    /\ UNCHANGED auditVars
    /\ UNCHANGED procVars

NextBuilders ==
    \/ BuildSearchCondition
    \/ BuildOrderBy
    \/ IsShortQuery

SpecBuilders == InitBuilders /\ [][NextBuilders]_vars

\* QueryFilterBuilder on every content of the two tables
ExcludeIds == {NULL, "", "i1", "i3"}

InitFilter ==
    /\ table = EmptyTable
    /\ session = EmptyTable
    /\ nextId = 1
    /\ now = 1
    /\ ret = Ret("none", Out(Db, "ok", <<>>, FALSE))
    /\ failedAt = {}
    /\ query = <<>>
    /\ value = <<>>
    /\ use_trgm = TRUE
    /\ cond = [op |-> "none"]
    /\ order_expr = [op |-> "none"]
    /\ short = [op |-> "none"]
    /\ items \in ItemTables
    /\ owners \in OwnerTables
    /\ stmt = select
    /\ applied = [op |-> "none", exclude_id |-> NULL]
    /\ result = [status |-> "none", rows |-> {}]
    /\ SelectorIdle
    /\ AuditIdle
    /\ ProcIdle

Applied(op, exclude_id, statement) ==
    /\ stmt' = statement
    /\ applied' = [op |-> op, exclude_id |-> exclude_id]
    /\ result' = [status |-> "none", rows |-> {}]
    /\ UNCHANGED <<items, owners>>
    /\ UNCHANGED repoVars
    /\ UNCHANGED searchVars
    /\ UNCHANGED selectorVars
    /\ UNCHANGED auditVars
    /\ UNCHANGED procVars

AddVisibilityFilters ==
    /\ Len(stmt.where) + 2 <= MaxWhere
    /\ Applied("add_visibility_filters", NULL, add_visibility_filters(stmt))

AddExcludeIdFilter ==
    /\ Len(stmt.where) + 1 <= MaxWhere
    /\ \E exclude_id \in ExcludeIds :
        Applied("add_exclude_id_filter", exclude_id,
                add_exclude_id_filter(stmt, exclude_id))

\* execute_query_async(statement)
ExecuteQuery ==
    /\ result.status = "none"
    /\ result' = execute(stmt, items, owners)
    /\ applied' = [op |-> "execute_query_async", exclude_id |-> NULL]
    /\ UNCHANGED <<items, owners, stmt>>
    /\ UNCHANGED repoVars
    /\ UNCHANGED searchVars
    /\ UNCHANGED selectorVars
    /\ UNCHANGED auditVars
    /\ UNCHANGED procVars

NextFilter ==
    \/ AddVisibilityFilters
    \/ AddExcludeIdFilter
    \/ ExecuteQuery

SpecFilter == InitFilter /\ [][NextFilter]_vars

\* add_not_null_and_not_empty_filter on every content of a table with a
\* text column
InitText ==
    /\ table = EmptyTable
    /\ session = EmptyTable
    /\ nextId = 1
    /\ now = 1
    /\ ret = Ret("none", Out(Db, "ok", <<>>, FALSE))
    /\ failedAt = {}
    /\ query = <<>>
    /\ value = <<>>
    /\ use_trgm = TRUE
    /\ cond = [op |-> "none"]
    /\ order_expr = [op |-> "none"]
    /\ short = [op |-> "none"]
    /\ items \in TextItemTables
    /\ owners = EmptyTable
    /\ stmt = select
    /\ applied = [op |-> "none", exclude_id |-> NULL]
    /\ result = [status |-> "none", rows |-> {}]
    /\ SelectorIdle
    /\ AuditIdle
    /\ ProcIdle

AddNotNullAndNotEmptyFilter ==
    /\ Len(stmt.where) + 2 <= MaxWhere
    /\ Applied("add_not_null_and_not_empty_filter", NULL,
               add_not_null_and_not_empty_filter(stmt))

NextText ==
    \/ AddNotNullAndNotEmptyFilter
    \/ AddExcludeIdFilter
    \/ ExecuteQuery

SpecText == InitText /\ [][NextText]_vars

\* LocaleFieldSelector on every model class, prefix and locale
MaxPrefixes == 2    \* prefixes in one select_multiple_fields call

PrefixInputs == {<<"name">>, <<"bio">>}
LocaleInputs == LocaleCode \cup {<<"fr">>}
Models ==
    SUBSET {get_field_name(<<"name">>, <<"ko">>), get_field_name(<<"name">>, <<"en">>),
            get_field_name(<<"name">>, <<"fr">>), get_field_name(<<"bio">>, <<"ko">>)}

Selection(op, field_prefixes, locale, o) ==
    [op |-> op, prefixes |-> field_prefixes, locale |-> locale,
     status |-> o.status, field |-> o.field, fields |-> o.fields,
     missing |-> o.missing, listed |-> o.listed]

InitSelector ==
    /\ table = EmptyTable
    /\ session = EmptyTable
    /\ nextId = 1
    /\ now = 1
    /\ ret = Ret("none", Out(Db, "ok", <<>>, FALSE))
    /\ failedAt = {}
    /\ query = <<>>
    /\ value = <<>>
    /\ use_trgm = TRUE
    /\ cond = [op |-> "none"]
    /\ order_expr = [op |-> "none"]
    /\ short = [op |-> "none"]
    /\ items = EmptyTable
    /\ owners = EmptyTable
    /\ stmt = select
    /\ applied = [op |-> "none", exclude_id |-> NULL]
    /\ result = [status |-> "none", rows |-> {}]
    /\ model \in Models
    /\ selected = NoSelection
    /\ AuditIdle
    /\ ProcIdle

Selecting(s) ==
    /\ selected' = s
    /\ UNCHANGED model
    /\ UNCHANGED repoVars
    /\ UNCHANGED searchVars
    /\ UNCHANGED filterVars
    /\ UNCHANGED auditVars
    /\ UNCHANGED procVars

SelectField ==
    \E field_prefix \in PrefixInputs, locale \in LocaleInputs :
        LET o == select_field(model, field_prefix, locale) IN
        Selecting(Selection("select_field", <<field_prefix>>, locale,
                           [status |-> o.status, field |-> o.field, fields |-> <<>>,
                            missing |-> o.missing, listed |-> o.listed]))

SelectMultipleFields ==
    \E field_prefixes \in UNION {[1..k -> PrefixInputs] : k \in 0..MaxPrefixes},
       locale \in LocaleInputs :
        LET o == select_multiple_fields(model, field_prefixes, locale) IN
        Selecting(Selection("select_multiple_fields", field_prefixes, locale,
                           [status |-> o.status, field |-> NoName,
                            fields |-> o.fields, missing |-> o.missing,
                            listed |-> o.listed]))

GetFieldName ==
    \E field_prefix \in PrefixInputs, locale \in LocaleInputs :
        Selecting(Selection("get_field_name", <<field_prefix>>, locale,
                           [status |-> "ok",
                            field |-> get_field_name(field_prefix, locale),
                            fields |-> <<>>, missing |-> NoName, listed |-> {}]))

NextSelector ==
    \/ SelectField
    \/ SelectMultipleFields
    \/ GetFieldName

SpecSelector == InitSelector /\ [][NextSelector]_vars

\* the writes of the specialized repositories on one session
AccessArgs ==
    {[accessor_id |-> "admin1", accessor_type |-> "admin", target_user_id |-> i,
      resource_type |-> "photo", action |-> "view"] : i \in Ids}
    \cup
    {[accessor_id |-> "admin1", accessor_type |-> "admin", target_user_id |-> i,
      resource_type |-> "photo", action |-> "view", resource_id |-> "r1"] : i \in Ids}

LogAccess ==
    /\ Len(audits) < MaxAudits
    /\ now <= MaxClock
    /\ \E args \in AccessArgs, fail \in {"none", "commit", "refresh"} :
        LET out == log_access(Db, audits, args, Len(audits) + 1, now, fail)
            r == [Ret("log_access", out.o) EXCEPT !.id = args.target_user_id,
                                                  !.fail = fail]
        IN  /\ table' = out.o.db.table
            /\ session' = out.o.db.session
            /\ audits' = out.audits
            /\ ret' = r
            /\ txn' = TxnAfter(r)
            /\ now' = now + 1
            /\ UNCHANGED <<nextId, failedAt>>
            /\ UNCHANGED searchVars
            /\ UNCHANGED filterVars
            /\ UNCHANGED selectorVars
            /\ UNCHANGED procVars

NextAudit ==
    \/ Create
    \/ SoftDelete
    \/ LogAccess

SpecAudit == Init /\ [][NextAudit]_vars

\* load_user_with_relations statement by statement.  The four relation
\* queries are session.execute coroutines handed to asyncio.gather: each is
\* started in turn and runs until it waits for the database; the results
\* arrive in any order.
Relations == <<"profile", "lifestyle", "preference", "subscription">>

Loading(l) ==
    /\ loader' = l
    /\ UNCHANGED signup
    /\ UNCHANGED repoVars
    /\ UNCHANGED searchVars
    /\ UNCHANGED filterVars
    /\ UNCHANGED selectorVars
    /\ UNCHANGED auditVars

\* the call ends: the session afterwards, the outcome recorded
Loaded(o, r, l) ==
    /\ loader' = l
    /\ table' = o.db.table
    /\ session' = o.db.session
    /\ ret' = r
    /\ txn' = TxnAfter(r)
    /\ UNCHANGED <<nextId, now, failedAt, audits, signup>>
    /\ UNCHANGED searchVars
    /\ UNCHANGED filterVars
    /\ UNCHANGED selectorVars

\* await self.session.execute(user_stmt): the call is started
LoadBegin ==
    /\ loader.pc \in {"idle", "done"}
    /\ \E id \in Ids, fail \in BOOLEAN :
        Loading([NoLoad EXCEPT !.pc = "user", !.user_id = id, !.fail = fail,
                               !.inflight = loader.inflight \cup {"user"}])

\* its answer: None is returned when there is no such user (or the error
\* goes to the caller), otherwise the four queries are handed to gather
LoadUserFetched ==
    /\ loader.pc = "user"
    /\ LET o == load_user_with_relations(Db, loader.user_id, loader.fail, "ok")
           l == [loader EXCEPT !.inflight = @ \ {"user"}]
       IN  IF o.status # "ok" \/ o.rows = Absent
           THEN Loaded(o, [Ret("load_user_with_relations", o) EXCEPT
                                !.id = loader.user_id,
                                !.fail = IF loader.fail THEN "execute" ELSE "none"],
                       [l EXCEPT !.pc = "done"])
           ELSE Loading([l EXCEPT !.pc = "gather"])

\* the next coroutine of gather is started: its execute call is in progress
\* on the session, or it is refused because another one is in progress
IssueRelation ==
    /\ loader.pc = "gather"
    /\ ~loader.rejected
    /\ Len(loader.issued) < Len(Relations)
    /\ LET q == Relations[Len(loader.issued) + 1] IN
       \/ Loading([loader EXCEPT !.issued = Append(@, q),
                                  !.inflight = @ \cup {q}])
       \/ /\ loader.inflight # {}
          /\ Loading([loader EXCEPT !.issued = Append(@, q), !.rejected = TRUE])

\* one execute call gets its result
CompleteRelation ==
    /\ loader.pc \in {"gather", "done"}
    /\ \E q \in loader.inflight :
        Loading([loader EXCEPT !.inflight = @ \ {q}])

\* gather returns when every query has its answer and raises as soon as
\* one of them has failed
LoadReturn ==
    /\ loader.pc = "gather"
    /\ \/ loader.rejected
       \/ Len(loader.issued) = Len(Relations) /\ loader.inflight = {}
    /\ LET o == load_user_with_relations(Db, loader.user_id, FALSE,
                                         IF loader.rejected THEN "error" ELSE "ok")
       IN  Loaded(o, [Ret("load_user_with_relations", o) EXCEPT
                            !.id = loader.user_id],
                  [loader EXCEPT !.pc = "done"])

NextLoader ==
    \/ LoadBegin
    \/ LoadUserFetched
    \/ IssueRelation
    \/ CompleteRelation
    \/ LoadReturn

SpecLoader == InitRead /\ [][NextLoader]_vars

\* AuthService.email_sign_up, one request per session.  The sessions are
\* independent connections: each statement of a request sees the rows
\* committed so far, and the request holds nothing between its lookup and
\* its INSERT.
Committed == [table |-> table, session |-> table]

\* existing = find_by_email(...); raise HTTPException(409) when there is one
email_sign_up_lookup(db, email, fail) ==
    LET existing == find_by_email(db, email, fail) IN
    IF existing.status = "ok" /\ existing.rows # Absent
    THEN Out(existing.db, "HTTP_409_CONFLICT", Absent, FALSE)
    ELSE existing

\* create_async(email=, name=username, ...), then the tokens for the new
\* user; an error of create_async goes to the caller
email_sign_up_create(db, email, username, id, t, fail) ==
    create_async(db, [email |-> email, name |-> username], id, t, fail)

\* a step of a request that writes nothing
SigningUp(o, r, s) ==
    /\ signup' = s
    /\ table' = o.db.table
    /\ session' = o.db.session
    /\ ret' = r
    /\ txn' = TxnAfter(r)
    /\ UNCHANGED <<nextId, now, failedAt, audits, loader>>
    /\ UNCHANGED searchVars
    /\ UNCHANGED filterVars
    /\ UNCHANGED selectorVars

\* the step that inserts: an id is generated and the clock is read
SignedUp(o, r, s) ==
    /\ signup' = s
    /\ table' = o.db.table
    /\ session' = o.db.session
    /\ nextId' = nextId + Cardinality({i \in DOMAIN o.db.session : i >= nextId})
    /\ now' = now + 1
    /\ ret' = r
    /\ txn' = TxnAfter(r)
    /\ UNCHANGED <<failedAt, audits, loader>>
    /\ UNCHANGED searchVars
    /\ UNCHANGED filterVars
    /\ UNCHANGED selectorVars

\* a request arrives on session p and looks the email up
SignUpLookup(p) ==
    /\ signup[p].pc \in {"idle", "done"}
    /\ \E email \in Emails, username \in Names, fail \in BOOLEAN :
        LET o == email_sign_up_lookup(Committed, email, fail)
            r == [Ret("email_sign_up", o) EXCEPT !.id = p,
                     !.kw = [email |-> email, name |-> username],
                     !.fail = IF fail THEN "execute" ELSE "none"]
        IN  SigningUp(o, r,
                [signup EXCEPT ![p] =
                    [pc |-> IF o.status = "ok" THEN "checked" ELSE "done",
                     email |-> email, username |-> username]])

\* the request on session p creates its user
SignUpCreate(p) ==
    /\ signup[p].pc = "checked"
    /\ nextId <= MaxId
    /\ now <= MaxClock
    /\ \E fail \in {"none", "commit", "refresh"} :
        LET o == email_sign_up_create(Committed, signup[p].email,
                                      signup[p].username, nextId, now, fail)
            r == [Ret("email_sign_up", o) EXCEPT !.id = p,
                     !.kw = [email |-> signup[p].email,
                             name |-> signup[p].username],
                     !.fail = fail]
        IN  SignedUp(o, r, [signup EXCEPT ![p].pc = "done"])

EmailSignUp == \E p \in Sessions : SignUpLookup(p) \/ SignUpCreate(p)

NextSignUp ==
    \/ EmailSignUp
    \/ SoftDelete
    \/ FindByEmail

SpecSignUp == Init /\ [][NextSignUp]_vars

\* The service calls, each one whole, on one session
NameInputs == Names \cup {NULL}

CreateUser ==
    /\ nextId <= MaxId
    /\ now <= MaxClock
    /\ \E phone \in PhoneInputs, name \in Names, race \in {"ok", "error"},
          fail \in {"none", "lookup", "commit", "refresh", "load"} :
        LET o == create_user(Db, phone, name, nextId, now, fail, race) IN
        Done(o, [Ret("create_user", o) EXCEPT !.id = nextId,
                    !.kw = [phone |-> phone, name |-> name], !.fail = fail])

GetUser ==
    \E id \in Ids, fail \in BOOLEAN, race \in {"ok", "error"} :
        LET o == get_user(Db, id, fail, race) IN
        Read(o, [Ret("get_user", o) EXCEPT !.id = id,
                    !.fail = IF fail THEN "load" ELSE "none"])

UpdateUser ==
    /\ now <= MaxClock
    /\ \E id \in Ids, name \in NameInputs, race \in {"ok", "error"},
          fail \in {"none", "lookup", "update_lookup", "commit", "refresh",
                    "load"} :
        LET o == update_user(Db, id, name, now, fail, race) IN
        Done(o, [Ret("update_user", o) EXCEPT !.id = id,
                    !.kw = [name |-> name], !.fail = fail])

DeleteUser ==
    /\ now <= MaxClock
    /\ \E id \in Ids, fail \in {"none", "lookup", "commit"} :
        LET o == delete_user(Db, id, now, fail) IN
        Done(o, [Ret("delete_user", o) EXCEPT !.id = id, !.fail = fail])

EmailLogin ==
    \E email \in Emails, password_ok \in BOOLEAN, fail \in BOOLEAN :
        LET o == email_login(Db, email, password_ok, fail) IN
        Read(o, [Ret("email_login", o) EXCEPT !.kw = [email |-> email],
                    !.fail = IF fail THEN "execute" ELSE "none"])

RefreshAccessToken ==
    \E refresh_token \in Tokens, fail \in BOOLEAN :
        LET o == refresh_access_token(Db, refresh_token, fail) IN
        Read(o, [Ret("refresh_access_token", o) EXCEPT
                    !.id = verify_token(refresh_token, "refresh"),
                    !.fail = IF fail THEN "lookup" ELSE "none"])

\* the user service: users come and go, the listing is read
NextService ==
    \/ CreateUser
    \/ UpdateUser
    \/ DeleteUser
    \/ ListUsers

SpecService == Init /\ [][NextService]_vars

\* the services around a user's deletion: users sign up, are deleted, and
\* are then asked for
NextAuth ==
    \/ EmailSignUp
    \/ DeleteUser
    \/ UpdateUser
    \/ GetUser
    \/ EmailLogin
    \/ RefreshAccessToken

SpecAuth == Init /\ [][NextAuth]_vars

----------------------------------------------------------------------------
(* Properties of the repository *)

IdsOf(rows) == {rows[k].id : k \in 1..Len(rows)}

\* C1: bulk_create is all-or-nothing: the rows of a batch whose creation
\* failed (the call raised without committing the batch) are never in the
\* table, whatever is committed on the session later.
C1_BulkCreateAllOrNothing ==
    \A i \in DOMAIN table : table[i].created_at \notin failedAt

\* the fields violate the UNIQUE rule of phone against the rows v
CreateViolates(v, kw) ==
    /\ "phone" \in DOMAIN kw
    /\ \E i \in DOMAIN v : v[i].phone = kw["phone"]

\* C2: a create whose fields violate a uniqueness rule raises (the integrity
\* error, unless the database failed before reporting it), leaves the table
\* as it was and leaves nothing of the call pending in the session.
C2_CreateConflictRollsBack ==
    [][(ret'.op = "create" /\ CreateViolates(session, ret'.kw)) =>
            /\ ret'.status # "ok"
            /\ ret'.fail # "commit" => ret'.status = "IntegrityError"
            /\ table' = table
            /\ session' = table']_vars

C2_Witness ==
    /\ ret.op = "create"
    /\ ret.status = "IntegrityError"
    /\ CreateViolates(table, ret.kw)
    /\ session = table

\* C3: whenever a statement of a write call fails in the database layer the
\* call raises, after a rollback; it never returns normally.
C3_WriteFailuresSurface ==
    (ret.op \in {"create", "update", "delete", "bulk_create"} /\ ret.dbfail) =>
        /\ ret.status \in {"IntegrityError", "SQLAlchemyError"}
        /\ session = table

C5_UpdateMissingIdNoEffect ==
    [][(ret'.op = "update" /\ ret'.id \notin DOMAIN View) =>
            /\ ret'.status = "ok"
            /\ ret'.rows = Absent
            /\ table' = table
            /\ session' = View]_vars

C5_Witness ==
    /\ ret.op = "update"
    /\ ret.status = "ok"
    /\ ret.rows = Absent
    /\ ~ret.dbfail
    /\ ret.kw # <<>>
    /\ table # EmptyTable

\* C6: after a successful create, get of the returned id returns an entity
\* that has the supplied value in every supplied field, a generated id and
\* both default timestamps.
C6_CreateGetRoundTrip ==
    (ret.op = "create" /\ ret.status = "ok") =>
        LET g == get_async(Db, ret.rows[1].id, FALSE) IN
        /\ g.rows # Absent
        /\ \A f \in DOMAIN ret.kw : g.rows[1][f] = ret.kw[f]
        /\ g.rows[1].id = ret.rows[1].id
        /\ g.rows[1].id \in Ids
        /\ g.rows[1].created_at # NoTime
        /\ g.rows[1].updated_at # NoTime

C6_Witness ==
    /\ ret.op = "create"
    /\ ret.status = "ok"
    /\ DOMAIN ret.kw = {"phone", "name", "email"}

\* C7: delete returns true exactly when a row with that id was there and is
\* gone afterwards (get of the id is then absent), and returns false without
\* changing the table when no row has the id.
C7_DeleteIsHardDelete ==
    [][(ret'.op = "delete" /\ ret'.status = "ok") =>
            LET id == ret'.id IN
            /\ ret'.flag <=> (id \in DOMAIN View /\ id \notin DOMAIN View')
            /\ ret'.flag =>
                get_async([table |-> table', session |-> session'], id, FALSE).rows
                    = Absent
            /\ id \notin DOMAIN View => (~ret'.flag /\ table' = table)]_vars

C7_Witness ==
    /\ ret.op = "delete"
    /\ ret.status = "ok"
    /\ ret.flag
    /\ ret.id \notin DOMAIN table
    /\ table # EmptyTable

\* C8: with no write in between, list(skip=0, limit=N) and then
\* list(skip=N, limit=N) with the same order_by return pages that share no
\* row and together hold the first 2N rows (all rows when there are fewer).
C8_PaginationDeterminism ==
    [][(/\ ret.op = "list" /\ ret'.op = "list"
        /\ ~ret.dbfail /\ ~ret'.dbfail
        /\ ret.skip = 0 /\ ret.limit > 0
        /\ ret'.skip = ret.limit /\ ret'.limit = ret.limit
        /\ ret'.order_by = ret.order_by
        /\ table' = table /\ session' = session) =>
            /\ IdsOf(ret.rows) \cap IdsOf(ret'.rows) = {}
            /\ Cardinality(IdsOf(ret.rows) \cup IdsOf(ret'.rows))
                    = Min(2 * ret.limit, Cardinality(DOMAIN View))]_vars

\* C9: a user whose soft_delete succeeded is still a row, with deleted_at
\* set, and no row with deleted_at set is returned by find_by_phone,
\* find_by_email, load_user_with_relations or list_users.
C9_SoftDeletedExcluded ==
    /\ (ret.op = "soft_delete" /\ ret.status = "ok" /\ ret.flag) =>
            /\ ret.id \in DOMAIN table
            /\ table[ret.id].deleted_at # NoTime
    /\ ret.op \in {"find_by_phone", "find_by_email",
                   "load_user_with_relations", "list_users"} =>
            \A k \in 1..Len(ret.rows) : ret.rows[k].deleted_at = NoTime

----------------------------------------------------------------------------
(* Properties of SearchPatternBuilder *)

OnlyWhitespace(str) == \A k \in 1..Len(str) : str[k] \in Whitespace

\* C10: for an empty or all-whitespace query the condition built is false
\* on every column value (NULL, empty or any text), with either flag.
C10_EmptyQueryMatchesNothing ==
    (cond.op # "none" /\ OnlyWhitespace(query)) => Eval(cond, value) = "F"

C10_Witness ==
    /\ cond.op # "none"
    /\ query = <<" ", "\t">>
    /\ value = <<" ", "\t">>
    /\ use_trgm

\* text contains q, ignoring case
Contains(text, q) ==
    \E i \in 1..(Len(text) - Len(q) + 1) :
        \A k \in 1..Len(q) : Lower(text[i + k - 1]) = Lower(q[k])

\* C11: for a query that is not empty after trimming, the condition selects
\* a row exactly when its value contains the trimmed query ignoring case,
\* or, for a trimmed query longer than 2 with similarity allowed, when the
\* similarity of the value and the trimmed query is above 0.1; the
\* condition is the one built from the trimmed query.
C11_StrategyByLength ==
    (cond.op # "none" /\ strip(query) # <<>>) =>
        LET q == strip(query)
            sub == value # SqlNull /\ Contains(value, q)
            sim == value # SqlNull /\ SimilarityAbove(value, q)
        IN  /\ cond = build_search_condition(q, use_trgm)
            /\ (Eval(cond, value) = "T") <=>
                    IF Len(q) > 2 /\ use_trgm THEN sub \/ sim ELSE sub

HasSimilarity(c) ==
    \/ c.op = "similarity_gt"
    \/ c.op \in {"and", "or"} /\ "similarity_gt" \in {c.l.op, c.r.op}

\* C12: on one query the three functions agree on the threshold test:
\* build_order_by gives the column (ascending) exactly when is_short_query
\* is true and the similarity score descending otherwise, and the condition
\* of build_search_condition has a similarity term only when is_short_query
\* is false.
C12_SameThresholdTest ==
    /\ (short.op # "none" /\ order_expr.op # "none") =>
            /\ order_expr.op \in {"column", "similarity_desc"}
            /\ short.result <=> order_expr.op = "column"
            /\ ~short.result <=> order_expr.op = "similarity_desc"
    /\ (short.op # "none" /\ cond.op # "none" /\ HasSimilarity(cond)) =>
            ~short.result

C12_Witness ==
    /\ short.op # "none"
    /\ ~short.result
    /\ order_expr.op = "similarity_desc"
    /\ HasSimilarity(cond)

----------------------------------------------------------------------------
(* Properties of QueryFilterBuilder *)

ItemsOf(rows) == {r.item : r \in rows}

NoDuplicates(rows) == \A r1, r2 \in rows : r1.item = r2.item => r1 = r2

\* C13: applying add_visibility_filters to a statement it was just applied
\* to gives a statement that still executes, joins the user table no second
\* time and returns the same rows, none of them twice.
C13_VisibilityIdempotent ==
    [][(/\ applied.op = "add_visibility_filters"
        /\ applied'.op = "add_visibility_filters") =>
            LET once == execute(stmt, items, owners)
                twice == execute(stmt', items, owners)
            IN  /\ once.status = "ok" => twice.status = "ok"
                /\ twice.rows = once.rows
                /\ NoDuplicates(twice.rows)
                /\ Len(stmt'.joins) = Len(stmt.joins)]_vars

Visible(i) ==
    /\ items[i].user_id \in DOMAIN owners
    /\ owners[items[i].user_id].is_admin = "F"
    /\ items[i].is_visible = "T"

\* C14: add_visibility_filters on a base statement selects exactly the rows
\* of the base statement whose owner exists and is not an administrator and
\* whose is_visible is true, each once.
C14_VisibilityRule ==
    [][(applied'.op = "add_visibility_filters" /\ stmt.joins = <<>>) =>
            LET base == execute(stmt, items, owners)
                filtered == execute(stmt', items, owners)
            IN  /\ filtered.status = "ok"
                /\ ItemsOf(filtered.rows) = {i \in ItemsOf(base.rows) : Visible(i)}
                /\ NoDuplicates(filtered.rows)]_vars

C14_Witness ==
    /\ applied.op = "execute_query_async"
    /\ result.status = "ok"
    /\ stmt = add_visibility_filters(add_exclude_id_filter(select, "i1"))
    /\ DOMAIN items = ItemIds
    /\ DOMAIN owners = {"u1"}
    /\ items["i2"].user_id = "u1"
    /\ Visible("i2")
    /\ ItemsOf(result.rows) = {"i2"}

\* C20: add_exclude_id_filter with an identifier selects exactly the rows
\* of the base statement whose id differs from it, and with None gives a
\* statement with the results of the base statement; it never fails.
C20_ExcludeIdFilter ==
    [][applied'.op = "add_exclude_id_filter" =>
            LET base == execute(stmt, items, owners)
                filtered == execute(stmt', items, owners)
                exclude_id == applied'.exclude_id
            IN  /\ filtered.status = base.status
                /\ filtered.rows =
                        IF exclude_id = NULL THEN base.rows
                        ELSE {r \in base.rows : r.item # exclude_id}]_vars

C20_Witness ==
    /\ applied.op = "execute_query_async"
    /\ result.status = "ok"
    /\ stmt = add_exclude_id_filter(add_visibility_filters(select), "i1")
    /\ DOMAIN items = ItemIds
    /\ Visible("i1")
    /\ Visible("i2")
    /\ ItemsOf(result.rows) = {"i2"}

----------------------------------------------------------------------------
(* Properties of the reads and of bulk_update *)

\* C15: when no statement fails for a reason outside the call, count,
\* exists, find_by and filter_by select the rows whose field equals the
\* scalar value of a filter and is a member of the list value of a filter.
C15_ListFilterIsMembership ==
    (ret.op \in {"count", "exists", "find_by", "filter_by"} /\ ret.fail = "none") =>
        LET sel == {i \in DOMAIN session : MatchesIn(session[i], ret.filters)} IN
        /\ ret.op = "count" => ret.n = Cardinality(sel)
        /\ ret.op = "exists" => (ret.flag <=> sel # {})
        /\ ret.op = "find_by" =>
                /\ sel = {} => ret.rows = Absent
                /\ Cardinality(sel) = 1 =>
                        ret.rows = <<session[CHOOSE i \in sel : TRUE]>>
        /\ (ret.op = "filter_by" /\ ret.status = "ok") =>
                /\ IdsOf(ret.rows) \subseteq sel
                /\ (ret.skip = 0 /\ ret.limit = 0) => IdsOf(ret.rows) = sel

\* C16: get never raises and leaves the table as it is; when its SELECT
\* does not fail it returns the row with that id where the session sees
\* one, and absent where it sees none.
C16_GetReturnsRowOrAbsent ==
    [][ret'.op = "get" =>
            /\ ret'.status = "ok"
            /\ table' = table
            /\ session' = View
            /\ ~ret'.dbfail =>
                    ret'.rows = IF ret'.id \in DOMAIN View
                                THEN <<View[ret'.id]>>
                                ELSE Absent
            /\ \A k \in 1..Len(ret'.rows) : ret'.rows[k].id = ret'.id]_vars

C16_Witness ==
    /\ ret.op = "get"
    /\ ret.status = "ok"
    /\ ~ret.dbfail
    /\ ret.rows = Absent
    /\ ret.id \notin DOMAIN table
    /\ table # EmptyTable

Sorted(rows, f, desc) ==
    \A k \in 1..(Len(rows) - 1) :
        IF desc THEN SortKey(rows[k], f) >= SortKey(rows[k + 1], f)
        ELSE SortKey(rows[k], f) <= SortKey(rows[k + 1], f)

\* C17: a list call whose statement does not fail in the database returns
\* its rows ascending by the named field, descending with the "-" prefix,
\* and when the name is no field of the model it returns what a list call
\* with the same skip and limit and no order_by can return.
C17_ListOrderBy ==
    (ret.op = "list" /\ ~ret.dbfail) =>
        LET desc == ret.order_by # <<>> /\ Head(ret.order_by) = "-"
            name == IF desc THEN Tail(ret.order_by) ELSE ret.order_by
            isField == Len(name) = 1 /\ name[1] \in ModelFields
        IN  /\ ret.status = "ok"
            /\ isField => Sorted(ret.rows, name[1], desc)
            /\ ~isField =>
                    \E order \in RowOrders(session, OrderOf(<<>>)) :
                        ret.rows =
                            list_async(Db, ret.skip, ret.limit, <<>>, order, FALSE).rows

ReadOps == {"get", "list", "count", "exists", "find_by", "filter_by"}

\* C18: a read during which a statement fails in the database returns
\* normally with the empty result of its kind (no rows, 0, false, absent)
\* and leaves the table as it is.
C18_ReadFailuresSwallowed ==
    [][(ret'.op \in ReadOps /\ ret'.dbfail) =>
            /\ ret'.status = "ok"
            /\ ret'.rows = <<>>
            /\ ret'.n = 0
            /\ ~ret'.flag
            /\ table' = table]_vars

C18_Witness ==
    /\ ret.op = "count"
    /\ ret.fail = "execute"
    /\ ret.dbfail
    /\ ret.filters = <<>>
    /\ ret.n = 0
    /\ Cardinality(DOMAIN table) = MaxId

\* C19: bulk_update returns the number of rows of the table it changed
\* (0 for an empty list), and a call that raises changes no row.
C19_BulkUpdateCount ==
    [][ret'.op = "bulk_update" =>
            /\ ret'.status = "ok" =>
                    ret'.n = Cardinality({i \in DOMAIN table :
                                            table'[i] # table[i]})
            /\ ret'.status # "ok" => table' = table
            /\ DOMAIN table' = DOMAIN table]_vars

----------------------------------------------------------------------------
(* Properties of the text filter, the field selector and the services *)

\* C21: add_not_null_and_not_empty_filter selects exactly the rows of the
\* base statement whose text field is not NULL, not the empty string and
\* not made of whitespace only.
C21_NotNullAndNotBlank ==
    [][applied'.op = "add_not_null_and_not_empty_filter" =>
            LET base == execute(stmt, items, owners)
                filtered == execute(stmt', items, owners)
            IN  /\ filtered.status = base.status
                /\ filtered.rows =
                        {r \in base.rows :
                            /\ items[r.item].material # SqlNull
                            /\ ~OnlyWhitespace(items[r.item].material)}]_vars

DeclaredBy(m, k) == get_field_name(selected.prefixes[k], selected.locale) \in m

\* C22: select_field returns the field named prefix_locale when the model
\* declares it and otherwise raises, its message listing every field of the
\* model; it returns no field of another locale and never returns without
\* a field.  select_multiple_fields raises in the same way for the first
\* requested prefix that is missing and otherwise maps every requested
\* prefix to its field.
C22_SelectFieldOrError ==
    /\ selected.op = "select_field" =>
            IF DeclaredBy(model, 1)
            THEN /\ selected.status = "ok"
                 /\ selected.field =
                        get_field_name(selected.prefixes[1], selected.locale)
            ELSE /\ selected.status = "ValueError"
                 /\ selected.field = NoName
                 /\ selected.missing =
                        get_field_name(selected.prefixes[1], selected.locale)
                 /\ model \subseteq selected.listed
    /\ selected.op = "select_multiple_fields" =>
            LET bad == {k \in 1..Len(selected.prefixes) : ~DeclaredBy(model, k)} IN
            IF bad = {}
            THEN /\ selected.status = "ok"
                 /\ DOMAIN selected.fields =
                        {selected.prefixes[k] : k \in 1..Len(selected.prefixes)}
                 /\ \A p \in DOMAIN selected.fields :
                        selected.fields[p] = get_field_name(p, selected.locale)
            ELSE /\ selected.status = "ValueError"
                 /\ selected.fields = <<>>
                 /\ \E k \in bad :
                        /\ \A j \in bad : k <= j
                        /\ selected.missing =
                                get_field_name(selected.prefixes[k], selected.locale)
                 /\ model \subseteq selected.listed

C22_Witness ==
    /\ selected.op = "select_field"
    /\ selected.status = "ValueError"
    /\ selected.prefixes = <<<<"name">>>>
    /\ selected.locale = <<"en">>
    /\ get_field_name(<<"name">>, <<"ko">>) \in model

\* C23: a LocaleFieldSelector call with a locale code outside {ko, en}
\* returns no field reference and no field name.
C23_ClosedLocaleSet ==
    (selected.op # "none" /\ selected.locale \notin LocaleCode) =>
        /\ selected.status # "ok"
        /\ selected.field = NoName
        /\ selected.fields = <<>>

\* C24: when soft_delete or log_access ends with an error, the session's
\* transaction has been rolled back (none with a failed statement is left
\* open) and the session holds nothing that is not committed.
C24_SpecializedWritesRollBack ==
    (ret.op \in {"soft_delete", "log_access"} /\ ret.status # "ok") =>
        /\ txn = "none"
        /\ session = table

\* C25: the session never has two execute calls in flight, and while the
\* user lookup of load_user_with_relations is in flight no relation query
\* has been issued.
C25_OneStatementAtATime ==
    /\ Cardinality(loader.inflight) <= 1
    /\ "user" \in loader.inflight => loader.issued = <<>>

\* C26: a find_by whose statement the database accepts returns one of the
\* rows that match every filter naming a field whenever there is such a row,
\* also when there are several, and absent only when there is none.
C26_FindByFirstMatch ==
    (ret.op = "find_by" /\ ret.fail = "none" /\ ~BadCompare(ret.filters)) =>
        LET sel == {i \in DOMAIN session : Matches(session[i], ret.filters)} IN
        /\ ret.status = "ok"
        /\ sel # {} =>
                /\ ret.rows # Absent
                /\ \E i \in sel : ret.rows = <<session[i]>>
        /\ sel = {} => ret.rows = Absent

\* C27: a filter_by whose statement does not fail returns normally, and
\* returns what the same call returns without the filter keywords and the
\* order_by name that are no fields of the model.
C27_FilterByIgnoresUnknownNames ==
    (ret.op = "filter_by" /\ ret.fail = "none") =>
        LET desc == ret.order_by # <<>> /\ Head(ret.order_by) = "-"
            name == IF ret.order_by = <<>> THEN NULL
                    ELSE ret.order_by[Len(ret.order_by)]
            order_by == IF name \in ModelFields THEN name ELSE NULL
            known == [f \in DOMAIN ret.filters \cap ModelFields |-> ret.filters[f]]
        IN  /\ ret.status = "ok"
            /\ \E order \in RowOrders(Selected(session, known),
                                       [field |-> IF order_by = NULL THEN ""
                                                  ELSE order_by,
                                        desc |-> desc]) :
                    ret.rows = filter_by_async(Db, ret.skip, ret.limit, order_by,
                                               desc, known, order, FALSE).rows

\* C28: however the email_sign_up requests of independent sessions
\* interleave, no two users that are not deleted have the same email
\* address, so find_by_email never finds two rows.
C28_OneUserPerEmail ==
    \A i, j \in DOMAIN table :
        (/\ i # j
         /\ table[i].email # NULL
         /\ table[i].email = table[j].email
         /\ table[i].deleted_at = NoTime) => table[j].deleted_at # NoTime

\* the ids a listing of page size limit returns when it is paged through
\* to the end, the rows coming in the given order
PagedThrough(order, limit) ==
    UNION {LET page == list_async(Db, k * limit, limit, <<"-", "created_at">>,
                                  order, FALSE).rows
           IN  {page[i].id : i \in DOMAIN page} :
           k \in 0..Cardinality(DOMAIN session)}

\* C29: the total of a list_users response is the number of users the
\* listing returns over all its pages, and the users counted are the users
\* listed.
C29_TotalIsListed ==
    (ret.op = "list_users" /\ ret.fail = "none") =>
        \A order \in RowOrders(View, OrderOf(<<"-", "created_at">>)) :
            /\ ret.n = Cardinality(PagedThrough(order, ret.limit))
            /\ PagedThrough(order, ret.limit) =
                    {i \in DOMAIN session :
                        Matches(session[i], [deleted_at |-> Scalar(NoTime)])}

\* the user has been soft-deleted: soft_delete committed its deleted_at
SoftDeleted(id) == id \in DOMAIN table /\ table[id].deleted_at # NoTime

\* C30: once a user is soft-deleted, no service call changes its
\* deleted_at; delete_user for it returns false and writes nothing;
\* update_user and get_user for it do not return and leave the row as it
\* is, raising NotFoundError unless a statement of the call failed in the
\* database; email_login and refresh_access_token issue no tokens for it.
C30_SoftDeletePermanent ==
    [][\A id \in Ids : SoftDeleted(id) =>
        /\ id \in DOMAIN table'
        /\ table'[id].deleted_at = table[id].deleted_at
        /\ (ret'.op = "delete_user" /\ ret'.id = id) =>
                /\ ret'.status = "ok"
                /\ ~ret'.flag
                /\ table' = table
        /\ (ret'.op = "update_user" /\ ret'.id = id) =>
                /\ ret'.status = "NotFoundError"
                /\ table' = table
        /\ (ret'.op = "get_user" /\ ret'.id = id) =>
                /\ ret'.status # "ok"
                /\ ret'.fail = "none" => ret'.status = "NotFoundError"
                /\ table' = table
        /\ (ret'.op \in {"email_login", "refresh_access_token"}
                /\ ret'.status = "ok") =>
                /\ ret'.rows # Absent
                /\ ret'.rows[1].id # id
      ]_vars

\* update_user with a new name has been refused for a soft-deleted user
C30_Witness ==
    /\ ret.op = "update_user"
    /\ ret.status = "NotFoundError"
    /\ ret.fail = "none"
    /\ ret.kw.name # NULL
    /\ SoftDeleted(ret.id)
    /\ table[ret.id].email # NULL

====
